---- MODULE Spec2Model ----
(***************************************************************************)
(* Model of the banking exercise src/DesafioBanc/main.py: the classes      *)
(* Deposito, Saque, Historico, Conta, ContaCorrente, Cliente and           *)
(* PessoaFisica, driven by a caller that invokes their methods one at a    *)
(* time (the program is single-threaded, every method runs to completion). *)
(*                                                                         *)
(* Python objects are records; a reference to an account is its index in   *)
(* the sequence contas, a reference to a client its index in clientes.     *)
(* Monetary values are Python floats in the source; they are modelled as   *)
(* exact integers (whole reais), so rounding and the IEEE special values   *)
(* inf and nan are outside the model.                                      *)
(***************************************************************************)
EXTENDS Integers, Sequences, FiniteSets

VARIABLES clientes, contas, ret

vars == <<clientes, contas, ret>>

----------------------------------------------------------------------------
(* Program constants                                                       *)

\* ContaCorrente.__init__: limite: float = 500.0
LimitePadrao == 500
\* ContaCorrente.__init__: limite_saques: int = 3
LimiteSaquesPadrao == 3
\* Conta.__init__: agencia: str = "0001"
AgenciaPadrao == "0001"

(* Bounds of the model                                                     *)

\* number of recorded transactions, over all accounts: a call that would
\* record one more is not issued
MaxTransacoes == 4

\* the amounts the caller passes (valor): negative, zero, the smallest
\* positive amount and the overdraft limit
Valores == {-1, 0, 1, LimitePadrao}

\* the classes nova_conta is called on
Classes == {"Conta", "ContaCorrente"}

----------------------------------------------------------------------------
(* Transacao, Deposito, Saque, Historico                                   *)

\* Deposito.__init__
Deposito(valor) == [tipo |-> "Deposito", valor |-> valor]

\* Saque.__init__
Saque(valor) == [tipo |-> "Saque", valor |-> valor]

\* the transactions the caller constructs itself to hand them to
\* Cliente.realizar_transacao: one negative and one positive amount of each
\* class
Transacoes == {Deposito(v) : v \in {-1, 1}} \cup {Saque(v) : v \in {-1, 1}}

\* Historico.adicionar_transacao that keeps only the newest transaction
adicionar_transacao_substitui(historico, transacao) == <<transacao>>

\* Historico.adicionar_transacao that inserts at the front (insert(0, ...))
adicionar_transacao_no_inicio(historico, transacao) == <<transacao>> \o historico

\* Historico.adicionar_transacao
adicionar_transacao(historico, transacao) == Append(historico, transacao)

\* Deposito.registrar
DepositoRegistrar(transacao, conta) ==
    [conta EXCEPT !.saldo = @ + transacao.valor,
                  !.historico = adicionar_transacao(@, transacao)]

\* Saque.registrar that debits the balance and forgets the history
SaqueRegistrarSemHistorico(transacao, conta) ==
    [conta EXCEPT !.saldo = @ - transacao.valor]

\* Saque.registrar
SaqueRegistrar(transacao, conta) ==
    [conta EXCEPT !.saldo = @ - transacao.valor,
                  !.historico = adicionar_transacao(@, transacao)]

\* transacao.registrar(conta): dynamic dispatch on the transaction's class
registrar(transacao, conta) ==
    IF transacao.tipo = "Deposito"
    THEN DepositoRegistrar(transacao, conta)
    ELSE SaqueRegistrar(transacao, conta)

\* Deposito.__str__ / Saque.__str__ : sign marker, label, amount
TransacaoStr(transacao) ==
    IF transacao.tipo = "Deposito"
    THEN <<"[+]", "Deposito", transacao.valor>>
    ELSE <<"[-]", "Saque", transacao.valor>>

\* Historico.gerar_relatorio
gerar_relatorio(historico) ==
    IF historico = << >>
    THEN <<"Nenhuma transacao realizada.">>
    ELSE <<"--- Extrato de Transacoes ---">>
         \o [i \in 1..Len(historico) |-> TransacaoStr(historico[i])]

----------------------------------------------------------------------------
(* Conta, ContaCorrente                                                    *)

\* Conta.__init__ (and ContaCorrente.__init__ for the subclass), reached
\* through the factory Conta.nova_conta(cliente, numero). A base Conta has
\* no limite, limite_saques or _numero_saques_realizados attribute: the
\* record carries them as 0 and Conta.sacar never reads them.
nova_conta(cls, cliente, numero) ==
    [classe |-> cls,
     saldo |-> 0,
     numero |-> numero,
     agencia |-> AgenciaPadrao,
     cliente |-> cliente,
     historico |-> << >>,
     limite |-> IF cls = "ContaCorrente" THEN LimitePadrao ELSE 0,
     limite_saques |-> IF cls = "ContaCorrente" THEN LimiteSaquesPadrao ELSE 0,
     numero_saques_realizados |-> 0]

\* the outcome of a method call: the object after the call, the value
\* returned and the message printed
Resultado(conta, retorno, msg) ==
    [conta |-> conta, retorno |-> retorno, msg |-> msg]

\* Conta.depositar that lets a zero amount through (valor < 0)
depositar_aceita_zero(conta, valor) ==
    IF valor < 0
    THEN Resultado(conta, "False", "InvalidAmount")
    ELSE Resultado(DepositoRegistrar(Deposito(valor), conta), "True", "ok")

\* Conta.depositar
depositar(conta, valor) ==
    IF valor <= 0
    THEN Resultado(conta, "False", "InvalidAmount")
    ELSE Resultado(DepositoRegistrar(Deposito(valor), conta), "True", "ok")

\* Conta.sacar without the funds check
ContaSacarSemVerificarSaldo(conta, valor) ==
    IF valor <= 0
    THEN Resultado(conta, "False", "InvalidAmount")
    ELSE Resultado(SaqueRegistrar(Saque(valor), conta), "True", "ok")

\* Conta.sacar that refuses to empty the account (>= for >)
ContaSacarRejeitaIgual(conta, valor) ==
    IF valor <= 0
    THEN Resultado(conta, "False", "InvalidAmount")
    ELSE IF valor >= conta.saldo
    THEN Resultado(conta, "False", "InsufficientFunds")
    ELSE Resultado(SaqueRegistrar(Saque(valor), conta), "True", "ok")

\* Conta.sacar
ContaSacar(conta, valor) ==
    IF valor <= 0
    THEN Resultado(conta, "False", "InvalidAmount")
    ELSE IF valor > conta.saldo
    THEN Resultado(conta, "False", "InsufficientFunds")
    ELSE Resultado(SaqueRegistrar(Saque(valor), conta), "True", "ok")

\* ContaCorrente.sacar that compares the amount with the balance alone
ContaCorrenteSacarSemLimite(conta, valor) ==
    IF valor <= 0
    THEN Resultado(conta, "False", "InvalidAmount")
    ELSE IF conta.numero_saques_realizados >= conta.limite_saques
    THEN Resultado(conta, "False", "WithdrawalLimitReached")
    ELSE IF valor > conta.saldo
    THEN Resultado(conta, "False", "InsufficientFunds")
    ELSE Resultado([SaqueRegistrar(Saque(valor), conta)
                      EXCEPT !.numero_saques_realizados = @ + 1],
                   "True", "ok")

\* ContaCorrente.sacar that lets one withdrawal too many through (> for >=)
ContaCorrenteSacarUmAMais(conta, valor) ==
    IF valor <= 0
    THEN Resultado(conta, "False", "InvalidAmount")
    ELSE IF conta.numero_saques_realizados > conta.limite_saques
    THEN Resultado(conta, "False", "WithdrawalLimitReached")
    ELSE IF valor > conta.saldo + conta.limite
    THEN Resultado(conta, "False", "InsufficientFunds")
    ELSE Resultado([SaqueRegistrar(Saque(valor), conta)
                      EXCEPT !.numero_saques_realizados = @ + 1],
                   "True", "ok")

\* ContaCorrente.sacar that checks the funds before the withdrawal limit
ContaCorrenteSacarFundosPrimeiro(conta, valor) ==
    IF valor <= 0
    THEN Resultado(conta, "False", "InvalidAmount")
    ELSE IF valor > conta.saldo + conta.limite
    THEN Resultado(conta, "False", "InsufficientFunds")
    ELSE IF conta.numero_saques_realizados >= conta.limite_saques
    THEN Resultado(conta, "False", "WithdrawalLimitReached")
    ELSE Resultado([SaqueRegistrar(Saque(valor), conta)
                      EXCEPT !.numero_saques_realizados = @ + 1],
                   "True", "ok")

\* ContaCorrente.sacar that compares the amount with the overdraft line
\* alone, whatever was already drawn
ContaCorrenteSacarIgnoraSaldo(conta, valor) ==
    IF valor <= 0
    THEN Resultado(conta, "False", "InvalidAmount")
    ELSE IF conta.numero_saques_realizados >= conta.limite_saques
    THEN Resultado(conta, "False", "WithdrawalLimitReached")
    ELSE IF valor > conta.limite
    THEN Resultado(conta, "False", "InsufficientFunds")
    ELSE Resultado([SaqueRegistrar(Saque(valor), conta)
                      EXCEPT !.numero_saques_realizados = @ + 1],
                   "True", "ok")

\* ContaCorrente.sacar that counts the attempt before the funds check
ContaCorrenteSacarContaTentativa(conta, valor) ==
    IF valor <= 0
    THEN Resultado(conta, "False", "InvalidAmount")
    ELSE IF conta.numero_saques_realizados >= conta.limite_saques
    THEN Resultado(conta, "False", "WithdrawalLimitReached")
    ELSE IF valor > conta.saldo + conta.limite
    THEN Resultado([conta EXCEPT !.numero_saques_realizados = @ + 1],
                   "False", "InsufficientFunds")
    ELSE Resultado([SaqueRegistrar(Saque(valor), conta)
                      EXCEPT !.numero_saques_realizados = @ + 1],
                   "True", "ok")

\* ContaCorrente.sacar that starts a new period once it has reported the
\* limit
ContaCorrenteSacarReinicia(conta, valor) ==
    IF valor <= 0
    THEN Resultado(conta, "False", "InvalidAmount")
    ELSE IF conta.numero_saques_realizados >= conta.limite_saques
    THEN Resultado([conta EXCEPT !.numero_saques_realizados = 0],
                   "False", "WithdrawalLimitReached")
    ELSE IF valor > conta.saldo + conta.limite
    THEN Resultado(conta, "False", "InsufficientFunds")
    ELSE Resultado([SaqueRegistrar(Saque(valor), conta)
                      EXCEPT !.numero_saques_realizados = @ + 1],
                   "True", "ok")

\* ContaCorrente.sacar that forgets to count the withdrawal
ContaCorrenteSacarNaoConta(conta, valor) ==
    IF valor <= 0
    THEN Resultado(conta, "False", "InvalidAmount")
    ELSE IF conta.numero_saques_realizados >= conta.limite_saques
    THEN Resultado(conta, "False", "WithdrawalLimitReached")
    ELSE IF valor > conta.saldo + conta.limite
    THEN Resultado(conta, "False", "InsufficientFunds")
    ELSE Resultado(SaqueRegistrar(Saque(valor), conta), "True", "ok")

\* ContaCorrente.sacar
ContaCorrenteSacar(conta, valor) ==
    IF valor <= 0
    THEN Resultado(conta, "False", "InvalidAmount")
    ELSE IF conta.numero_saques_realizados >= conta.limite_saques
    THEN Resultado(conta, "False", "WithdrawalLimitReached")
    ELSE IF valor > conta.saldo + conta.limite
    THEN Resultado(conta, "False", "InsufficientFunds")
    ELSE Resultado([SaqueRegistrar(Saque(valor), conta)
                      EXCEPT !.numero_saques_realizados = @ + 1],
                   "True", "ok")

\* conta.sacar(valor): dynamic dispatch on the account's class
sacar(conta, valor) ==
    IF conta.classe = "ContaCorrente"
    THEN ContaCorrenteSacar(conta, valor)
    ELSE ContaSacar(conta, valor)

----------------------------------------------------------------------------
(* Cliente, PessoaFisica                                                   *)

\* PessoaFisica.__init__ (Cliente.__init__ sets contas = [])
PessoaFisica(cpf) == [cpf |-> cpf, contas |-> << >>]

\* Cliente.adicionar_conta that appends the account twice
adicionar_conta_duas_vezes(cliente, conta) ==
    [cliente EXCEPT !.contas = Append(Append(@, conta), conta)]

\* Cliente.adicionar_conta
adicionar_conta(cliente, conta) == [cliente EXCEPT !.contas = Append(@, conta)]

\* the test "conta not in self.contas" of Cliente.realizar_transacao
Possui(cliente, conta) == \E i \in 1..Len(cliente.contas) : cliente.contas[i] = conta

\* Cliente.realizar_transacao without the return after the error message
realizar_transacao_sem_return(cliente, conta, transacao, objeto) ==
    IF ~Possui(cliente, conta)
    THEN Resultado(registrar(transacao, objeto), "None", "AccountNotOwned")
    ELSE Resultado(registrar(transacao, objeto), "None", "ok")

\* Cliente.realizar_transacao that goes through conta.depositar / conta.sacar
\* instead of transacao.registrar
realizar_transacao_validado(cliente, conta, transacao, objeto) ==
    IF ~Possui(cliente, conta)
    THEN Resultado(objeto, "None", "AccountNotOwned")
    ELSE Resultado((IF transacao.tipo = "Deposito"
                    THEN depositar(objeto, transacao.valor)
                    ELSE sacar(objeto, transacao.valor)).conta,
                   "None", "ok")

\* Cliente.realizar_transacao
realizar_transacao(cliente, conta, transacao, objeto) ==
    IF ~Possui(cliente, conta)
    THEN Resultado(objeto, "None", "AccountNotOwned")
    ELSE Resultado(registrar(transacao, objeto), "None", "ok")

----------------------------------------------------------------------------
(* The state machine: a caller holding two clients and one account, which  *)
(* belongs to the first client, calls the methods in any order.            *)

\* the record of the last call: its operation and arguments, the value it
\* returned, the message it printed ("ok" for the success message or none)
Chamada(op, cliente, conta, tipo, valor, retorno, msg) ==
    [op |-> op, cliente |-> cliente, conta |-> conta, tipo |-> tipo,
     valor |-> valor, retorno |-> retorno, msg |-> msg]

RECURSIVE TotalTransacoes(_)
\* the number of transactions recorded so far in the accounts cs
TotalTransacoes(cs) ==
    IF cs = << >> THEN 0
    ELSE Len(Head(cs).historico) + TotalTransacoes(Tail(cs))

\* the state after construction: PessoaFisica(...) twice, then
\* cls.nova_conta(cliente 1, numero 1) and cliente.adicionar_conta(conta)
Init ==
    \E cls \in Classes :
        /\ clientes = <<adicionar_conta(PessoaFisica(1), 1), PessoaFisica(2)>>
        /\ contas = <<nova_conta(cls, 1, 1)>>
        /\ ret = Chamada("nova_conta", 1, 1, "-", 0, "None", "ok")

\* conta.depositar(valor)
Depositar(a, valor) ==
    /\ LET r == depositar(contas[a], valor) IN
         /\ contas' = [contas EXCEPT ![a] = r.conta]
         /\ TotalTransacoes(contas') <= MaxTransacoes
         /\ ret' = Chamada("depositar", 0, a, "Deposito", valor, r.retorno, r.msg)
    /\ UNCHANGED clientes

\* conta.sacar(valor)
Sacar(a, valor) ==
    /\ LET r == sacar(contas[a], valor) IN
         /\ contas' = [contas EXCEPT ![a] = r.conta]
         /\ TotalTransacoes(contas') <= MaxTransacoes
         /\ ret' = Chamada("sacar", 0, a, "Saque", valor, r.retorno, r.msg)
    /\ UNCHANGED clientes

\* cliente.realizar_transacao(conta, transacao)
RealizarTransacao(c, a, transacao) ==
    /\ LET r == realizar_transacao(clientes[c], a, transacao, contas[a]) IN
         /\ contas' = [contas EXCEPT ![a] = r.conta]
         /\ TotalTransacoes(contas') <= MaxTransacoes
         /\ ret' = Chamada("realizar_transacao", c, a, transacao.tipo,
                           transacao.valor, r.retorno, r.msg)
    /\ UNCHANGED clientes

\* conta.historico.gerar_relatorio() that consumes the list while it
\* formats it (pop instead of iteration)
GerarRelatorioConsome(a) ==
    /\ ret' = Chamada("gerar_relatorio", 0, a, "-", 0,
                      gerar_relatorio(contas[a].historico), "ok")
    /\ contas' = [contas EXCEPT ![a].historico = << >>]
    /\ UNCHANGED clientes

\* conta.historico.gerar_relatorio()
GerarRelatorio(a) ==
    /\ ret' = Chamada("gerar_relatorio", 0, a, "-", 0,
                      gerar_relatorio(contas[a].historico), "ok")
    /\ UNCHANGED <<clientes, contas>>

Next ==
    \/ \E a \in 1..Len(contas), valor \in Valores : Depositar(a, valor)
    \/ \E a \in 1..Len(contas), valor \in Valores : Sacar(a, valor)
    \/ \E c \in 1..Len(clientes), a \in 1..Len(contas), t \in Transacoes :
          RealizarTransacao(c, a, t)
    \/ \E a \in 1..Len(contas) : GerarRelatorio(a)

Spec == Init /\ [][Next]_vars

\* the caller that keeps to the validated path: depositar, sacar and the
\* report, never Cliente.realizar_transacao
NextValidado ==
    \/ \E a \in 1..Len(contas), valor \in Valores : Depositar(a, valor)
    \/ \E a \in 1..Len(contas), valor \in Valores : Sacar(a, valor)
    \/ \E a \in 1..Len(contas) : GerarRelatorio(a)

SpecValidado == Init /\ [][NextValidado]_vars

----------------------------------------------------------------------------
(* Two accounts: the caller holds two clients with one account each.       *)

\* number of recorded transactions, over both accounts, in the two-account
\* scenario
MaxTransacoesDuas == 2

\* the state after construction: PessoaFisica(...) twice, then one
\* nova_conta and adicionar_conta for each client
InitDuas ==
    \E cls1, cls2 \in Classes :
        /\ clientes = <<adicionar_conta(PessoaFisica(1), 1),
                        adicionar_conta(PessoaFisica(2), 2)>>
        /\ contas = <<nova_conta(cls1, 1, 1), nova_conta(cls2, 2, 2)>>
        /\ ret = Chamada("nova_conta", 2, 2, "-", 0, "None", "ok")

\* conta.depositar(valor) with the history list held by the class instead
\* of the instance (_transacoes = [] in the class body): the append shows
\* in every account
DepositarDuasHistoricoDaClasse(a, valor) ==
    /\ LET r == depositar(contas[a], valor) IN
         /\ contas' = [i \in 1..Len(contas) |->
                         IF i = a THEN r.conta
                         ELSE [contas[i] EXCEPT !.historico = r.conta.historico]]
         /\ ret' = Chamada("depositar", 0, a, "Deposito", valor, r.retorno, r.msg)
    /\ TotalTransacoes(contas') <= MaxTransacoesDuas
    /\ UNCHANGED clientes

\* conta.depositar(valor) in the two-account scenario
DepositarDuas(a, valor) ==
    /\ Depositar(a, valor)
    /\ TotalTransacoes(contas') <= MaxTransacoesDuas

\* conta.sacar(valor) in the two-account scenario
SacarDuas(a, valor) ==
    /\ Sacar(a, valor)
    /\ TotalTransacoes(contas') <= MaxTransacoesDuas

\* cliente.realizar_transacao(conta, transacao) in the two-account scenario
RealizarTransacaoDuas(c, a, transacao) ==
    /\ RealizarTransacao(c, a, transacao)
    /\ TotalTransacoes(contas') <= MaxTransacoesDuas

NextDuas ==
    \/ \E a \in 1..Len(contas), valor \in Valores : DepositarDuas(a, valor)
    \/ \E a \in 1..Len(contas), valor \in Valores : SacarDuas(a, valor)
    \/ \E c \in 1..Len(clientes), a \in 1..Len(contas), t \in Transacoes :
          RealizarTransacaoDuas(c, a, t)
    \/ \E a \in 1..Len(contas) : GerarRelatorio(a)

SpecDuas == InitDuas /\ [][NextDuas]_vars

----------------------------------------------------------------------------
(* The interactive driver: main() and its helpers. Each action is one pass *)
(* of the while loop, from the menu choice to the continue / end of the    *)
(* branch, with the texts typed by the user as its parameters.             *)

\* number of accounts and of recorded transactions up to which the user
\* goes on creating and transacting
MaxContasMenu == 2
MaxTransacoesMenu == 1

\* the tax ids the user types; as option 1 refuses a cpf it already has,
\* they also limit the number of clients
CpfsMenu == {1, 2}

\* the account positions the user types when asked "Numero da conta"
IndicesMenu == 0..(MaxContasMenu + 1)

\* the amounts the user types in the driver
ValoresMenu == {0, 1, LimitePadrao + 1}

\* filtrar_cliente_por_cpf: the first client with that cpf, 0 for None
filtrar_cliente_por_cpf(cpf, cs) ==
    IF \E i \in 1..Len(cs) : cs[i].cpf = cpf
    THEN CHOOSE i \in 1..Len(cs) :
            /\ cs[i].cpf = cpf
            /\ \A j \in 1..(i - 1) : cs[j].cpf # cpf
    ELSE 0

\* get_conta_cliente: the account chosen, 0 for None; numerico tells whether
\* the text typed parses as an int, idx is the number typed
get_conta_cliente(cliente, numerico, idx) ==
    IF cliente.contas = << >> THEN 0
    ELSE IF Len(cliente.contas) = 1 THEN cliente.contas[1]
    ELSE IF ~numerico THEN 0
    ELSE IF 0 <= idx - 1 /\ idx - 1 < Len(cliente.contas)
    THEN cliente.contas[idx]
    ELSE 0

\* the message get_conta_cliente prints when it returns None
get_conta_cliente_msg(cliente, numerico, idx) ==
    IF cliente.contas = << >> THEN "ClienteSemContas"
    ELSE IF ~numerico THEN "EntradaInvalida"
    ELSE "SelecaoInvalida"

\* main: clientes = [], contas = []
InitMenu ==
    /\ clientes = << >>
    /\ contas = << >>
    /\ ret = Chamada("main", 0, 0, "-", 0, "None", "ok")

\* the loop is still running (option 0 breaks out of it)
Rodando == ret.op # "sair"

\* option 1 without the search for an existing client: every cpf typed
\* makes a new client
Opcao1SemVerificarCpf(cpf) ==
    /\ Rodando
    /\ clientes' = Append(clientes, PessoaFisica(cpf))
    /\ ret' = Chamada("opcao1", Len(clientes) + 1, 0, "-", cpf, "None", "ok")
    /\ UNCHANGED contas

\* option 1: create a client
Opcao1(cpf) ==
    /\ Rodando
    /\ IF filtrar_cliente_por_cpf(cpf, clientes) # 0
       THEN /\ ret' = Chamada("opcao1", filtrar_cliente_por_cpf(cpf, clientes), 0,
                              "-", cpf, "None", "CpfDuplicado")
            /\ UNCHANGED <<clientes, contas>>
       ELSE /\ clientes' = Append(clientes, PessoaFisica(cpf))
            /\ ret' = Chamada("opcao1", Len(clientes) + 1, 0, "-", cpf, "None", "ok")
            /\ UNCHANGED contas

\* option 2 that numbers the account within its owner's accounts
Opcao2NumeroPorCliente(cpf) ==
    /\ Rodando
    /\ LET c == filtrar_cliente_por_cpf(cpf, clientes) IN
       IF c = 0
       THEN /\ ret' = Chamada("opcao2", 0, 0, "-", cpf, "None", "ClienteNaoEncontrado")
            /\ UNCHANGED <<clientes, contas>>
       ELSE /\ Len(contas) < MaxContasMenu
            /\ contas' = Append(contas,
                   nova_conta("ContaCorrente", c, Len(clientes[c].contas) + 1))
            /\ clientes' = [clientes EXCEPT ![c] = adicionar_conta(@, Len(contas) + 1)]
            /\ ret' = Chamada("opcao2", c, Len(contas) + 1, "-", cpf, "None", "ok")

\* option 2: create a ContaCorrente for an existing client
Opcao2(cpf) ==
    /\ Rodando
    /\ LET c == filtrar_cliente_por_cpf(cpf, clientes) IN
       IF c = 0
       THEN /\ ret' = Chamada("opcao2", 0, 0, "-", cpf, "None", "ClienteNaoEncontrado")
            /\ UNCHANGED <<clientes, contas>>
       ELSE /\ Len(contas) < MaxContasMenu
            /\ contas' = Append(contas,
                   nova_conta("ContaCorrente", c, Len(contas) + 1))
            /\ clientes' = [clientes EXCEPT ![c] = adicionar_conta(@, Len(contas) + 1)]
            /\ ret' = Chamada("opcao2", c, Len(contas) + 1, "-", cpf, "None", "ok")

\* option 3: list the accounts of a client
Opcao3(cpf) ==
    /\ Rodando
    /\ LET c == filtrar_cliente_por_cpf(cpf, clientes) IN
       ret' = Chamada("opcao3", c, 0, "-", cpf, "None",
                      IF c = 0 THEN "ClienteNaoEncontrado"
                      ELSE IF clientes[c].contas = << >> THEN "ClienteSemContas"
                      ELSE "ok")
    /\ UNCHANGED <<clientes, contas>>

\* the texts get_conta_cliente reads for that client: nothing when the
\* client has fewer than two accounts, otherwise a text that is not a
\* number (<<FALSE, 0>>) or a number (<<TRUE, idx>>)
EntradasConta(cliente) ==
    IF Len(cliente.contas) < 2
    THEN {<<TRUE, 1>>}
    ELSE {<<FALSE, 0>>} \cup {<<TRUE, idx>> : idx \in IndicesMenu}

\* the texts typed at "Valor do deposito / saque": not a number
\* (<<FALSE, 0>>) or a number (<<TRUE, valor>>)
EntradasValor == {<<FALSE, 0>>} \cup {<<TRUE, valor>> : valor \in ValoresMenu}

\* options 4 and 5: deposit into / withdraw from an account of a client
OpcaoMovimento(op, cpf) ==
    /\ Rodando
    /\ LET c == filtrar_cliente_por_cpf(cpf, clientes) IN
       IF c = 0
       THEN /\ ret' = Chamada(op, 0, 0, "-", 0, "None", "ClienteNaoEncontrado")
            /\ UNCHANGED <<clientes, contas>>
       ELSE \E e \in EntradasConta(clientes[c]) :
            LET a == get_conta_cliente(clientes[c], e[1], e[2]) IN
            IF a = 0
            THEN /\ ret' = Chamada(op, c, 0, "-", 0, "None",
                                   get_conta_cliente_msg(clientes[c], e[1], e[2]))
                 /\ UNCHANGED <<clientes, contas>>
            ELSE \E v \in EntradasValor :
                 IF ~v[1]
                 THEN /\ ret' = Chamada(op, c, a, "-", 0, "None", "ValorInvalido")
                      /\ UNCHANGED <<clientes, contas>>
                 ELSE LET r == IF op = "opcao4" THEN depositar(contas[a], v[2])
                               ELSE sacar(contas[a], v[2])
                      IN  /\ contas' = [contas EXCEPT ![a] = r.conta]
                          /\ TotalTransacoes(contas') <= MaxTransacoesMenu
                          /\ ret' = Chamada(
                                 IF op = "opcao4" THEN "depositar" ELSE "sacar",
                                 c, a,
                                 IF op = "opcao4" THEN "Deposito" ELSE "Saque",
                                 v[2], r.retorno, r.msg)
                          /\ UNCHANGED clientes

\* option 4: deposit
Opcao4(cpf) == OpcaoMovimento("opcao4", cpf)

\* option 5: withdraw
Opcao5(cpf) == OpcaoMovimento("opcao5", cpf)

\* option 6: statement
Opcao6(cpf) ==
    /\ Rodando
    /\ LET c == filtrar_cliente_por_cpf(cpf, clientes) IN
       IF c = 0
       THEN ret' = Chamada("opcao6", 0, 0, "-", 0, "None", "ClienteNaoEncontrado")
       ELSE \E e \in EntradasConta(clientes[c]) :
            LET a == get_conta_cliente(clientes[c], e[1], e[2]) IN
            IF a = 0
            THEN ret' = Chamada("opcao6", c, 0, "-", 0, "None",
                                get_conta_cliente_msg(clientes[c], e[1], e[2]))
            ELSE ret' = Chamada("gerar_relatorio", c, a, "-", contas[a].saldo,
                                gerar_relatorio(contas[a].historico), "ok")
    /\ UNCHANGED <<clientes, contas>>

\* option 0: leave the loop
Opcao0 ==
    /\ Rodando
    /\ ret' = Chamada("sair", 0, 0, "-", 0, "None", "ok")
    /\ UNCHANGED <<clientes, contas>>

\* any other text: "Opcao invalida"
OpcaoInvalida ==
    /\ Rodando
    /\ ret' = Chamada("opcao_invalida", 0, 0, "-", 0, "None", "OpcaoInvalida")
    /\ UNCHANGED <<clientes, contas>>

NextMenu ==
    \/ \E cpf \in CpfsMenu : Opcao1(cpf)
    \/ \E cpf \in CpfsMenu : Opcao2(cpf)
    \/ \E cpf \in CpfsMenu : Opcao3(cpf)
    \/ \E cpf \in CpfsMenu : Opcao4(cpf)
    \/ \E cpf \in CpfsMenu : Opcao5(cpf)
    \/ \E cpf \in CpfsMenu : Opcao6(cpf)
    \/ Opcao0
    \/ OpcaoInvalida

SpecMenu == InitMenu /\ [][NextMenu]_vars

----------------------------------------------------------------------------
(* Properties                                                              *)

RECURSIVE SomaAssinada(_)
\* the sum of the signed amounts of a history: deposits count positive,
\* withdrawals negative
SomaAssinada(h) ==
    IF h = << >> THEN 0
    ELSE (IF Head(h).tipo = "Deposito" THEN Head(h).valor ELSE 0 - Head(h).valor)
         + SomaAssinada(Tail(h))

\* the number of withdrawals in a history
NumSaques(h) == Cardinality({i \in 1..Len(h) : h[i].tipo = "Saque"})

\* the step is a call of conta.depositar or conta.sacar
PassoValidado == ret'.op \in {"depositar", "sacar"}

\* the step is a call of sacar on a ContaCorrente / on a base Conta
PassoSaqueCorrente ==
    ret'.op = "sacar" /\ contas[ret'.conta].classe = "ContaCorrente"
PassoSaqueBase ==
    ret'.op = "sacar" /\ contas[ret'.conta].classe = "Conta"

\* the call of the step was rejected with the message msg and changed nothing
Rejeitado(msg) ==
    /\ ret'.retorno = "False"
    /\ ret'.msg = msg
    /\ contas' = contas
    /\ clientes' = clientes

\* C1: in every reachable state the balance of every account equals the
\* sum of the signed amounts of the transactions in its history.
C1_SaldoIgualSoma ==
    \A a \in 1..Len(contas) :
        contas[a].saldo = SomaAssinada(contas[a].historico)

\* C1 witness: an owned account took a direct transaction after other
\* transactions of both kinds and its balance is not zero.
C1_Witness ==
    /\ ret.op = "realizar_transacao" /\ ret.msg = "ok"
    /\ \E i, j \in 1..Len(contas[ret.conta].historico) :
          /\ contas[ret.conta].historico[i].tipo = "Deposito"
          /\ contas[ret.conta].historico[j].tipo = "Saque"
    /\ Len(contas[ret.conta].historico) >= 3
    /\ contas[ret.conta].saldo # 0

\* C2: every call of depositar or sacar either returns True after changing
\* the balance by the amount, appending exactly the transaction to the
\* history and (sacar on a ContaCorrente only) incrementing the withdrawal
\* counter, or returns False and leaves the account exactly as it was.
C2_TudoOuNada ==
    [][PassoValidado =>
        LET antes == contas[ret'.conta]
            depois == contas'[ret'.conta]
            corrente == ret'.op = "sacar" /\ antes.classe = "ContaCorrente"
        IN  \/ /\ ret'.retorno = "True"
               /\ depois.saldo = antes.saldo
                    + (IF ret'.op = "depositar" THEN ret'.valor ELSE 0 - ret'.valor)
               /\ depois.historico =
                    Append(antes.historico, [tipo |-> ret'.tipo, valor |-> ret'.valor])
               /\ depois.numero_saques_realizados =
                    antes.numero_saques_realizados + (IF corrente THEN 1 ELSE 0)
            \/ /\ ret'.retorno = "False"
               /\ depois = antes
    ]_vars

\* C2 witness: a ContaCorrente that already has withdrawals behind it has
\* just rejected a withdrawal for lack of funds.
C2_Witness ==
    /\ ret.op = "sacar" /\ ret.retorno = "False" /\ ret.msg = "InsufficientFunds"
    /\ contas[ret.conta].classe = "ContaCorrente"
    /\ contas[ret.conta].numero_saques_realizados > 0
    /\ contas[ret.conta].historico # << >>

\* C3 as stated: on a ContaCorrente, sacar(valor) succeeds whenever
\* saldo < valor <= saldo + limite, and the resulting balance is negative
\* and not below -limite.
C3_Original ==
    [][(/\ PassoSaqueCorrente
        /\ contas[ret'.conta].saldo < ret'.valor
        /\ ret'.valor <= contas[ret'.conta].saldo + contas[ret'.conta].limite)
       => /\ ret'.retorno = "True"
          /\ contas'[ret'.conta].saldo < 0
          /\ contas'[ret'.conta].saldo >= 0 - contas[ret'.conta].limite
    ]_vars

\* C3 amended: on a ContaCorrente whose withdrawal limit is not reached,
\* sacar(valor) with valor > 0 and saldo < valor <= saldo + limite succeeds,
\* and the resulting balance is saldo - valor, negative and not below
\* -limite.
C3_ChequeEspecial ==
    [][(/\ PassoSaqueCorrente
        /\ ret'.valor > 0
        /\ contas[ret'.conta].numero_saques_realizados
             < contas[ret'.conta].limite_saques
        /\ contas[ret'.conta].saldo < ret'.valor
        /\ ret'.valor <= contas[ret'.conta].saldo + contas[ret'.conta].limite)
       => /\ ret'.retorno = "True"
          /\ contas'[ret'.conta].saldo = contas[ret'.conta].saldo - ret'.valor
          /\ contas'[ret'.conta].saldo < 0
          /\ contas'[ret'.conta].saldo >= 0 - contas[ret'.conta].limite
    ]_vars

\* C3 witness: a withdrawal of the whole overdraft line has succeeded and
\* left the balance at exactly -limite.
C3_Witness ==
    /\ ret.op = "sacar" /\ ret.retorno = "True"
    /\ contas[ret.conta].classe = "ContaCorrente"
    /\ contas[ret.conta].saldo = 0 - contas[ret.conta].limite
    /\ contas[ret.conta].saldo + ret.valor < ret.valor

\* C4 as stated: once the history of a ContaCorrente holds exactly
\* limite_saques successful withdrawals, the next call of sacar, whatever
\* its amount, is rejected with WithdrawalLimitReached and changes nothing.
C4_Original ==
    [][(/\ PassoSaqueCorrente
        /\ NumSaques(contas[ret'.conta].historico)
             = contas[ret'.conta].limite_saques)
       => Rejeitado("WithdrawalLimitReached")
    ]_vars

\* C4 amended: once the history of a ContaCorrente holds exactly
\* limite_saques successful withdrawals, the next call of sacar changes
\* nothing and returns False; it reports WithdrawalLimitReached when the
\* amount is positive, whatever the funds, and InvalidAmount when it is not.
C4_TetoDeSaques ==
    [][(/\ PassoSaqueCorrente
        /\ NumSaques(contas[ret'.conta].historico)
             = contas[ret'.conta].limite_saques)
       => IF ret'.valor > 0
          THEN Rejeitado("WithdrawalLimitReached")
          ELSE Rejeitado("InvalidAmount")
    ]_vars

\* C4 witness: after limite_saques withdrawals a further withdrawal that the
\* balance alone would cover has been rejected for the limit.
C4_Witness ==
    /\ ret.op = "sacar" /\ ret.msg = "WithdrawalLimitReached"
    /\ contas[ret.conta].classe = "ContaCorrente"
    /\ NumSaques(contas[ret.conta].historico) = contas[ret.conta].limite_saques
    /\ ret.valor <= contas[ret.conta].saldo

\* C5 as stated: on a base Conta, sacar(valor) with valor > saldo is
\* rejected with InsufficientFunds and changes nothing.
C5_Original ==
    [][(PassoSaqueBase /\ ret'.valor > contas[ret'.conta].saldo)
       => Rejeitado("InsufficientFunds")
    ]_vars

\* C5 amended: on a base Conta, sacar(valor) with valor > saldo returns
\* False and changes neither balance nor history; it reports
\* InsufficientFunds when valor > 0 and InvalidAmount when valor <= 0 (which
\* valor > saldo allows once the balance is negative).
C5_SaldoInsuficiente ==
    [][(PassoSaqueBase /\ ret'.valor > contas[ret'.conta].saldo)
       => IF ret'.valor > 0
          THEN Rejeitado("InsufficientFunds")
          ELSE Rejeitado("InvalidAmount")
    ]_vars

\* C5 witness: a base Conta with money in it has rejected a withdrawal
\* larger than its balance.
C5_Witness ==
    /\ ret.op = "sacar" /\ ret.msg = "InsufficientFunds"
    /\ contas[ret.conta].classe = "Conta"
    /\ contas[ret.conta].saldo > 0
    /\ ret.valor > contas[ret.conta].saldo

\* C6: the length of an account's history grows by exactly 1 in every call
\* of depositar or sacar that returns True, stays the same in every call
\* that returns False, and decreases in no step at all.
C6_HistoricoCresceUm ==
    [][/\ PassoValidado =>
            Len(contas'[ret'.conta].historico) =
                Len(contas[ret'.conta].historico)
                  + (IF ret'.retorno = "True" THEN 1 ELSE 0)
       /\ \A a \in 1..Len(contas) :
            Len(contas'[a].historico) >= Len(contas[a].historico)
    ]_vars

\* C6 witness: a deposit has succeeded on an account that already had a
\* history, which is now three entries long.
C6_Witness ==
    /\ ret.op = "depositar" /\ ret.retorno = "True"
    /\ Len(contas[ret.conta].historico) = 3

\* C7: ContaCorrente.sacar reports InvalidAmount when valor <= 0; otherwise
\* WithdrawalLimitReached when the counter has reached limite_saques, also
\* when valor exceeds saldo + limite; otherwise InsufficientFunds when valor
\* exceeds saldo + limite.
C7_OrdemDosErros ==
    [][PassoSaqueCorrente =>
        LET antes == contas[ret'.conta] IN
        /\ ret'.valor <= 0 => Rejeitado("InvalidAmount")
        /\ (/\ ret'.valor > 0
            /\ antes.numero_saques_realizados >= antes.limite_saques)
           => Rejeitado("WithdrawalLimitReached")
        /\ (/\ ret'.valor > 0
            /\ antes.numero_saques_realizados < antes.limite_saques
            /\ ret'.valor > antes.saldo + antes.limite)
           => Rejeitado("InsufficientFunds")
    ]_vars

\* C7 witness: with the limit reached, a positive amount above
\* saldo + limite has been rejected for the limit.
C7_Witness ==
    /\ ret.op = "sacar" /\ ret.msg = "WithdrawalLimitReached"
    /\ contas[ret.conta].classe = "ContaCorrente"
    /\ ret.valor > contas[ret.conta].saldo + contas[ret.conta].limite

\* C8: on the validated path, ContaCorrente.sacar with the limit not
\* reached and valor > saldo + limite is rejected with InsufficientFunds,
\* and in every reachable state the balance of a ContaCorrente is at least
\* -limite.
C8_PisoDoChequeEspecial ==
    /\ [](\A a \in 1..Len(contas) :
            contas[a].classe = "ContaCorrente"
               => contas[a].saldo >= 0 - contas[a].limite)
    /\ [][(/\ PassoSaqueCorrente
           /\ contas[ret'.conta].numero_saques_realizados
                < contas[ret'.conta].limite_saques
           /\ ret'.valor > contas[ret'.conta].saldo + contas[ret'.conta].limite)
          => Rejeitado("InsufficientFunds")
       ]_vars

\* C8 witness: a ContaCorrente standing at exactly -limite, with withdrawals
\* left, has rejected one more withdrawal for lack of funds.
C8_Witness ==
    /\ ret.op = "sacar" /\ ret.msg = "InsufficientFunds"
    /\ contas[ret.conta].classe = "ContaCorrente"
    /\ contas[ret.conta].saldo = 0 - contas[ret.conta].limite
    /\ contas[ret.conta].numero_saques_realizados
         < contas[ret.conta].limite_saques

\* C9: in every reachable state of a ContaCorrente,
\* 0 <= numero_saques_realizados <= limite_saques, and limite_saques is the
\* value set at construction.
C9_ContadorLimitado ==
    \A a \in 1..Len(contas) :
        contas[a].classe = "ContaCorrente" =>
            /\ contas[a].limite_saques = LimiteSaquesPadrao
            /\ 0 <= contas[a].numero_saques_realizados
            /\ contas[a].numero_saques_realizados <= contas[a].limite_saques

\* C9 witness: the withdrawal that has just succeeded brought the counter
\* to limite_saques.
C9_Witness ==
    /\ ret.op = "sacar" /\ ret.retorno = "True"
    /\ contas[ret.conta].classe = "ContaCorrente"
    /\ contas[ret.conta].numero_saques_realizados = contas[ret.conta].limite_saques

\* C10: on an account of either class, in any state, depositar(valor) is
\* rejected with InvalidAmount, changing nothing, iff valor <= 0; otherwise
\* it returns True, adds exactly valor to the balance, appends Deposito(valor)
\* as the last entry of the history and leaves the withdrawal counter alone.
C10_DepositoUmaFalha ==
    [][ret'.op = "depositar" =>
        LET antes == contas[ret'.conta]
            depois == contas'[ret'.conta]
        IN  /\ ret'.retorno = "False" <=> ret'.valor <= 0
            /\ ret'.retorno = "False" => Rejeitado("InvalidAmount")
            /\ ret'.retorno # "False" =>
                 /\ ret'.retorno = "True"
                 /\ depois.saldo = antes.saldo + ret'.valor
                 /\ depois.historico = Append(antes.historico, Deposito(ret'.valor))
                 /\ depois.numero_saques_realizados = antes.numero_saques_realizados
                 /\ \A a \in 1..Len(contas) : a # ret'.conta => contas'[a] = contas[a]
    ]_vars

\* C10 witness: a deposit has succeeded on a ContaCorrente whose withdrawal
\* limit is reached and whose balance is still negative after it.
C10_Witness ==
    /\ ret.op = "depositar" /\ ret.retorno = "True"
    /\ contas[ret.conta].classe = "ContaCorrente"
    /\ contas[ret.conta].numero_saques_realizados = contas[ret.conta].limite_saques
    /\ contas[ret.conta].saldo < 0

\* C11: Cliente.realizar_transacao with an account that is not in the
\* client's collection reports AccountNotOwned and changes nothing: the
\* balance, history and withdrawal counter of the account, every other
\* account and every client's collection are as before.
C11_ContaAlheiaNadaMuda ==
    [][(/\ ret'.op = "realizar_transacao"
        /\ ~Possui(clientes[ret'.cliente], ret'.conta))
       => /\ ret'.msg = "AccountNotOwned"
          /\ contas' = contas
          /\ clientes' = clientes
    ]_vars

\* C11 witness: the client that does not own the account has tried a
\* transaction on it after the account had already moved.
C11_Witness ==
    /\ ret.op = "realizar_transacao" /\ ret.msg = "AccountNotOwned"
    /\ ~Possui(clientes[ret.cliente], ret.conta)
    /\ contas[ret.conta].historico # << >>
    /\ contas[ret.conta].saldo # 0

\* C12: Cliente.realizar_transacao with an account of the client's
\* collection applies the transaction as it is: the balance moves by the
\* signed amount, the transaction becomes the last history entry and the
\* withdrawal counter stays, whatever the amount, the funds and the counter.
C12_TransacaoDiretaSemValidacao ==
    [][(/\ ret'.op = "realizar_transacao"
        /\ Possui(clientes[ret'.cliente], ret'.conta))
       => LET antes == contas[ret'.conta]
              depois == contas'[ret'.conta]
          IN  /\ ret'.msg = "ok"
              /\ depois.saldo = antes.saldo
                   + (IF ret'.tipo = "Deposito" THEN ret'.valor ELSE 0 - ret'.valor)
              /\ depois.historico =
                   Append(antes.historico, [tipo |-> ret'.tipo, valor |-> ret'.valor])
              /\ depois.numero_saques_realizados = antes.numero_saques_realizados
    ]_vars

\* C12 witness: on a ContaCorrente whose withdrawal limit is reached, a
\* direct Saque has been applied and the counter has not moved.
C12_Witness ==
    /\ ret.op = "realizar_transacao" /\ ret.msg = "ok" /\ ret.tipo = "Saque"
    /\ ret.valor > 0
    /\ contas[ret.conta].classe = "ContaCorrente"
    /\ contas[ret.conta].numero_saques_realizados = contas[ret.conta].limite_saques
    /\ NumSaques(contas[ret.conta].historico)
         > contas[ret.conta].numero_saques_realizados

\* the values returned by the calls of operation op that would be accepted
\* in the current state
RetornosAceitos(op) ==
    IF op = "depositar"
    THEN {depositar(contas[a], v).retorno : <<a, v>> \in
            {x \in (1..Len(contas)) \X Valores :
                depositar(contas[x[1]], x[2]).msg = "ok"}}
    ELSE IF op = "sacar"
    THEN {sacar(contas[a], v).retorno : <<a, v>> \in
            {x \in (1..Len(contas)) \X Valores :
                sacar(contas[x[1]], x[2]).msg = "ok"}}
    ELSE {realizar_transacao(clientes[c], a, t, contas[a]).retorno : <<c, a, t>> \in
            {x \in (1..Len(clientes)) \X (1..Len(contas)) \X Transacoes :
                realizar_transacao(clientes[x[1]], x[2], x[3], contas[x[2]]).msg = "ok"}}

\* C13: the value returned by a rejected call of depositar, sacar or
\* realizar_transacao differs from the value an accepted call of the same
\* operation returns, so the caller can tell rejection from success by the
\* return value alone.
C13_RetornoDistingue ==
    (/\ ret.op \in {"depositar", "sacar", "realizar_transacao"}
     /\ ret.msg # "ok")
    => ret.retorno \notin RetornosAceitos(ret.op)

\* C14: Historico.gerar_relatorio changes neither the history nor the
\* balance nor the counter (nor anything else), and a second call right
\* after it returns the same output as the first.
C14_RelatorioIdempotente ==
    [][ret'.op = "gerar_relatorio" =>
        /\ contas' = contas
        /\ clientes' = clientes
        /\ gerar_relatorio(contas'[ret'.conta].historico) = ret'.retorno
    ]_vars

\* C14 witness: a report of a history with at least two transactions has
\* been produced: the header and one line for each.
C14_Witness ==
    /\ ret.op = "gerar_relatorio"
    /\ Len(contas[ret.conta].historico) >= 2
    /\ Len(ret.retorno) = 1 + Len(contas[ret.conta].historico)

\* the sequence s is a prefix of the sequence t
Prefixo(s, t) ==
    /\ Len(s) <= Len(t)
    /\ \A i \in 1..Len(s) : s[i] = t[i]

\* C15: in every step the history of every account before the step is a
\* prefix of its history after it, and when an account's history changes,
\* it is by the transaction of the call as its new last entry.
C15_HistoricoPrefixo ==
    [][\A a \in 1..Len(contas) :
        /\ Prefixo(contas[a].historico, contas'[a].historico)
        /\ contas'[a].historico # contas[a].historico =>
             /\ a = ret'.conta
             /\ contas'[a].historico =
                  Append(contas[a].historico,
                         [tipo |-> ret'.tipo, valor |-> ret'.valor])
    ]_vars

\* C15 witness: an accepted withdrawal came last after two earlier entries,
\* the first of which is a deposit of another amount.
C15_Witness ==
    /\ ret.op = "sacar" /\ ret.retorno = "True"
    /\ Len(contas[ret.conta].historico) = 3
    /\ contas[ret.conta].historico[1].tipo = "Deposito"
    /\ contas[ret.conta].historico[1].valor # ret.valor
    /\ contas[ret.conta].historico[3] = Saque(ret.valor)

\* C16: the withdrawal counter of an account decreases in no step; once it
\* equals limite_saques on a ContaCorrente it stays there, and every call of
\* sacar with a positive amount made in that condition is rejected with
\* WithdrawalLimitReached, whatever happened since the limit was reached.
C16_LimitePermanente ==
    [][/\ \A a \in 1..Len(contas) :
            /\ contas'[a].numero_saques_realizados
                 >= contas[a].numero_saques_realizados
            /\ (/\ contas[a].classe = "ContaCorrente"
                /\ contas[a].numero_saques_realizados = contas[a].limite_saques)
               => contas'[a].numero_saques_realizados = contas'[a].limite_saques
       /\ (/\ PassoSaqueCorrente
           /\ ret'.valor > 0
           /\ contas[ret'.conta].numero_saques_realizados
                = contas[ret'.conta].limite_saques)
          => Rejeitado("WithdrawalLimitReached")
    ]_vars

\* C16 witness: the limit was reached, a deposit followed, and the
\* withdrawal tried after the deposit has been rejected for the limit.
C16_Witness ==
    /\ ret.op = "sacar" /\ ret.msg = "WithdrawalLimitReached"
    /\ contas[ret.conta].classe = "ContaCorrente"
    /\ LET h == contas[ret.conta].historico IN
         /\ Len(h) = contas[ret.conta].limite_saques + 1
         /\ h[Len(h)].tipo = "Deposito"
         /\ \A i \in 1..(Len(h) - 1) : h[i].tipo = "Saque"

\* C17: on the validated path, Conta.sacar(valor) on a base Conta returns
\* True iff 0 < valor <= saldo, then takes exactly valor off the balance,
\* and in every reachable state the balance of a base Conta is >= 0.
C17_SaldoBaseNaoNegativo ==
    /\ [](\A a \in 1..Len(contas) :
            contas[a].classe = "Conta" => contas[a].saldo >= 0)
    /\ [][PassoSaqueBase =>
            /\ ret'.retorno = "True"
                 <=> (0 < ret'.valor /\ ret'.valor <= contas[ret'.conta].saldo)
            /\ ret'.retorno = "True" =>
                 contas'[ret'.conta].saldo = contas[ret'.conta].saldo - ret'.valor
            /\ ret'.retorno # "True" => Rejeitado(ret'.msg)
       ]_vars

\* C17 witness: a base Conta has accepted the withdrawal of its whole
\* balance and stands at zero.
C17_Witness ==
    /\ ret.op = "sacar" /\ ret.retorno = "True"
    /\ contas[ret.conta].classe = "Conta"
    /\ contas[ret.conta].saldo = 0
    /\ ret.valor > 0

\* C18: on the validated path, the withdrawal counter of a ContaCorrente
\* equals the number of Saque entries of its history in every reachable
\* state: rejected withdrawals and deposits do not count.
C18_ContadorIgualSaques ==
    \A a \in 1..Len(contas) :
        contas[a].classe = "ContaCorrente" =>
            contas[a].numero_saques_realizados = NumSaques(contas[a].historico)

\* C18 witness: a ContaCorrente with a deposit and two withdrawals in its
\* history has just rejected a withdrawal.
C18_Witness ==
    /\ ret.op = "sacar" /\ ret.retorno = "False"
    /\ contas[ret.conta].classe = "ContaCorrente"
    /\ contas[ret.conta].numero_saques_realizados = 2
    /\ \E i \in 1..Len(contas[ret.conta].historico) :
          contas[ret.conta].historico[i].tipo = "Deposito"

\* C19: a call of depositar, sacar or realizar_transacao on one account
\* leaves every other account exactly as it was (balance, history, counter),
\* leaves every client's collection as it was, and leaves the owner, number,
\* agency, class and limits of the account itself as they were.
C19_OperacaoLocal ==
    [][ret'.op \in {"depositar", "sacar", "realizar_transacao"} =>
        /\ Len(contas') = Len(contas)
        /\ \A b \in 1..Len(contas) : b # ret'.conta => contas'[b] = contas[b]
        /\ clientes' = clientes
        /\ LET antes == contas[ret'.conta]
               depois == contas'[ret'.conta]
           IN  /\ depois.cliente = antes.cliente
               /\ depois.numero = antes.numero
               /\ depois.agencia = antes.agencia
               /\ depois.classe = antes.classe
               /\ depois.limite = antes.limite
               /\ depois.limite_saques = antes.limite_saques
    ]_vars

\* C19 witness: the second account has just accepted a transaction while
\* the first one holds a history and a balance of its own.
C19_Witness ==
    /\ Len(contas) = 2
    /\ ret.conta = 2 /\ ret.msg = "ok"
    /\ ret.op \in {"depositar", "sacar", "realizar_transacao"}
    /\ contas[1].historico # << >>
    /\ contas[2].historico # << >>
    /\ contas[1].historico # contas[2].historico
    /\ contas[1].saldo # contas[2].saldo

\* C20: in every state of the driver, the accounts of its list contas carry
\* pairwise distinct numbers and the k-th account created (the k-th of the
\* list) has number k.
C20_NumerosSequenciais ==
    /\ \A k \in 1..Len(contas) : contas[k].numero = k
    /\ \A i, j \in 1..Len(contas) :
          i # j => contas[i].numero # contas[j].numero

\* C20 witness: two accounts exist, of two different clients, the second
\* one created after a transaction on the first and other menu options.
C20_Witness ==
    /\ ret.op = "opcao2" /\ ret.msg = "ok"
    /\ Len(contas) = 2
    /\ contas[1].cliente # contas[2].cliente
    /\ contas[1].historico # << >>
    /\ contas[2].numero = 2

\* C21: in every state of the driver no two clients of its list clientes
\* have the same cpf, and option 1 with a cpf that a client of the list
\* already has is refused ("Ja existe um cliente com este CPF") and leaves
\* the list of clients, and the accounts, as they were; with a cpf nobody
\* has it appends exactly one client with that cpf and no account.
C21_CpfUnico ==
    /\ [](\A i, j \in 1..Len(clientes) :
            i # j => clientes[i].cpf # clientes[j].cpf)
    /\ [][ret'.op = "opcao1" =>
            IF \E i \in 1..Len(clientes) : clientes[i].cpf = ret'.valor
            THEN /\ ret'.msg = "CpfDuplicado"
                 /\ clientes' = clientes
                 /\ contas' = contas
            ELSE /\ ret'.msg = "ok"
                 /\ Len(clientes') = Len(clientes) + 1
                 /\ SubSeq(clientes', 1, Len(clientes)) = clientes
                 /\ clientes'[Len(clientes')].cpf = ret'.valor
                 /\ clientes'[Len(clientes')].contas = << >>
                 /\ contas' = contas
       ]_vars

\* C21 witness: with two clients in the list, the second one holding an
\* account, option 1 has just been refused for the cpf of the second.
C21_Witness ==
    /\ ret.op = "opcao1" /\ ret.msg = "CpfDuplicado"
    /\ Len(clientes) = 2
    /\ ret.cliente = 2
    /\ clientes[2].cpf = ret.valor
    /\ clientes[2].contas # << >>

\* the places <<c, i>> where account a stands in a collection of a client
Ocorrencias(a) ==
    UNION {{<<c, i>> : i \in {k \in 1..Len(clientes[c].contas) :
                                  clientes[c].contas[k] = a}} :
           c \in 1..Len(clientes)}

\* C22: in every state of the driver each account of its list contas stands
\* exactly once in the collection contas of exactly one client, that client
\* is the account's cliente, and the collections hold nothing but accounts
\* of the list; option 2 with a cpf no client has is refused ("Cliente nao
\* encontrado") and creates no account, in the list or in any collection.
C22_UmTitular ==
    /\ [](/\ \A a \in 1..Len(contas) :
               /\ Cardinality(Ocorrencias(a)) = 1
               /\ \A par \in Ocorrencias(a) : par[1] = contas[a].cliente
           /\ \A c \in 1..Len(clientes) :
               /\ Len(clientes[c].contas) <= Len(contas)
               /\ \A i \in 1..Len(clientes[c].contas) :
                     clientes[c].contas[i] \in 1..Len(contas))
    /\ [][(/\ ret'.op = "opcao2"
            /\ \A i \in 1..Len(clientes) : clientes[i].cpf # ret'.valor)
           => /\ ret'.msg = "ClienteNaoEncontrado"
              /\ contas' = contas
              /\ clientes' = clientes
       ]_vars

\* C22 witness: option 2 has just been refused for a cpf nobody has, while
\* the one client of the list holds both accounts created so far.
C22_Witness ==
    /\ ret.op = "opcao2" /\ ret.msg = "ClienteNaoEncontrado"
    /\ Len(clientes) = 1
    /\ Len(contas) = 2
    /\ clientes[1].contas = <<1, 2>>
    /\ contas[2].cliente = 1

====
